---- MODULE Spec2Model ----
(***************************************************************************)
(* whyinstall: why is a module installed, and how much does it weigh.      *)
(*                                                                         *)
(* The model follows the TypeScript sources:                               *)
(*   analyzer.ts        (src/README.md, lines 104-365): readPackageJson,   *)
(*                      findPackageJsonPath, findPackageInNodeModules,     *)
(*                      getAllDependencies, findDependencyPaths,           *)
(*                      analyzePackage                                     *)
(*   sizeMapAnalyzer.ts (src/src/fileFinder.ts, lines 191-334):            *)
(*                      calculateJsSize, getNodeModulesSize,               *)
(*                      findPackagePath, getDependencyTree, analyzeSizeMap *)
(*   cli.ts             (src/src/cli.ts): the command's action             *)
(*                                                                         *)
(* A path is the sequence of its segments: <<>> is "/", and                *)
(* <<"w","proj","package.json">> is /w/proj/package.json.  Module names    *)
(* are plain (unscoped) npm names: they hold no "/", ":" or "->".          *)
(***************************************************************************)
EXTENDS Integers, Sequences, FiniteSets, TLC

VARIABLES
  fs,            \* the file system the command runs on (read-only input)
  target,        \* <package-name> argument
  options,       \* the command's options: [sizeMap |-> BOOLEAN]
  pc,            \* where the command's action is
  queue,         \* findDependencyPaths: queue
  visited,       \* findDependencyPaths: visited (set of visit keys)
  paths,         \* findDependencyPaths: paths, the array it returns
  result,        \* analyzePackage: the AnalyzeResult returned (filtered paths, suggestions)
  error,         \* message of the Error thrown to the action's catch, "" if none
  exitCode,      \* process.exit code, -1 while running
  ownSize,       \* analyzeSizeMap: ownSize
  treeVisited,   \* analyzeSizeMap/getDependencyTree: visited (set of names)
  stack,         \* getDependencyTree: the call stack, innermost call first
  breakdown,     \* getDependencyTree: entries pushed so far, in push order
  sizeResult,    \* analyzeSizeMap: the SizeMapResult returned
  measuredDir,   \* the directory the size functions are applied to by themselves
  packageSize,   \* what findPackageSize(dir) returned
  jsSize,        \* what calculateJsSize(dir) returned
  givenPkg,      \* the manifest getAllDependencies is applied to by itself
  flatDeps,      \* what getAllDependencies(pkg) returned
  startDir,      \* the directory findPackageInNodeModules is applied to by itself
  located        \* what findPackageInNodeModules(target, startDir) returned

vars == <<fs, target, options, pc, queue, visited, paths, result, error,
          exitCode, ownSize, treeVisited, stack, breakdown, sizeResult,
          measuredDir, packageSize, jsSize, givenPkg, flatDeps,
          startDir, located>>

resolverVars == <<queue, visited, paths, result>>
sizeVars == <<ownSize, treeVisited, stack, breakdown, sizeResult>>
measureVars == <<measuredDir, packageSize, jsSize>>
flattenVars == <<givenPkg, flatDeps>>
locateVars == <<startDir, located>>

-----------------------------------------------------------------------------
(* Bounds of the model *)

\* most dependency declarations in one generated manifest graph
MaxEdges == 5

\* most dependency declarations in a graph that termination is checked on
MaxLiveEdges == 3

\* most category declarations in one generated category mix
MaxCatDecls == 4

\* longest generated dependency chain (in modules below the project)
MaxChain == 12

\* most dependency declarations in the manifests of a size-map file system
MaxSizeEdges == 4

\* most files in a directory tree the size functions are applied to
MaxTreeFiles == 3

\* most dependency declarations in a size-map file system that the
\* termination of the walk is checked on
MaxLiveSizeEdges == 3

\* longest list of paths the de-duplication is run on by itself
MaxList == 3

\* longest walk of the manifest graph the walk enumeration follows
MaxWalk == 3

-----------------------------------------------------------------------------
(* Paths and the file system *)

NM == "node_modules"
PkgJson == "package.json"

\* process.cwd() / options.cwd of every run of the model: /w/proj
Cwd == <<"w", "proj">>

NoPath == <<>>

join(dir, segs) == dir \o segs

\* rootPackageJson = join(cwd, 'package.json')
RootPkg == join(Cwd, <<PkgJson>>)

dirname(p) == IF Len(p) = 0 THEN p ELSE SubSeq(p, 1, Len(p) - 1)

SeqSet(q) == { q[i] : i \in 1..Len(q) }

Last(q) == q[Len(q)]

RECURSIVE JoinStr(_, _)
JoinStr(s, sep) ==
  IF Len(s) = 0 THEN ""
  ELSE IF Len(s) = 1 THEN s[1]
  ELSE s[1] \o sep \o JoinStr(Tail(s), sep)

\* the string a path is in the program
PathStr(p) == "/" \o JoinStr(p, "/")

IsPrefix(p, q) == Len(p) <= Len(q) /\ SubSeq(q, 1, Len(p)) = p

\* every file of f: its package.json files and its other regular files
AllFiles(f) == DOMAIN f.manifests \cup DOMAIN f.files

IsFile(f, p) == p \in AllFiles(f)

\* the directories of f that hold nothing, and the entries of f that cannot
\* be read (a file whose statSync throws, a directory whose readdirSync
\* throws); a file system that names neither has none
EmptyDirs(f) == IF "dirs" \in DOMAIN f THEN f.dirs ELSE {}

Unreadable(f) == IF "unreadable" \in DOMAIN f THEN f.unreadable ELSE {}

IsDirectory(f, p) ==
  \/ \E q \in AllFiles(f) : Len(q) > Len(p) /\ IsPrefix(p, q)
  \/ \E d \in EmptyDirs(f) : IsPrefix(p, d)

existsSync(f, p) == IsFile(f, p) \/ IsDirectory(f, p)

\* names of the entries of directory dir
readdirSync(f, dir) ==
  { q[Len(dir) + 1] :
      q \in { r \in AllFiles(f) \cup EmptyDirs(f) : Len(r) > Len(dir) /\ IsPrefix(dir, r) } }

\* statSync(p) throws: nothing is at p, or p is a file that cannot be read
statThrows(f, p) == ~existsSync(f, p) \/ (IsFile(f, p) /\ p \in Unreadable(f))

\* readdirSync(dir) throws: dir is no directory, or one that cannot be read
readdirThrows(f, dir) == ~IsDirectory(f, dir) \/ dir \in Unreadable(f)

-----------------------------------------------------------------------------
(* Manifests *)

Cats == <<"prod", "dev", "peer", "optional">>

\* a parsed package.json; each dependency map is the sequence of its keys,
\* in the order of the object's keys (the version ranges are never read)
Manifest(name, prod, dev, peer, opt) ==
  [ok |-> TRUE, name |-> name, dependencies |-> prod, devDependencies |-> dev,
   peerDependencies |-> peer, optionalDependencies |-> opt]

\* null: what readPackageJson returns for a missing, unreadable or malformed file
NoPkg ==
  [ok |-> FALSE, name |-> "", dependencies |-> <<>>, devDependencies |-> <<>>,
   peerDependencies |-> <<>>, optionalDependencies |-> <<>>]

readPackageJson(f, path) ==
  IF path \in DOMAIN f.manifests /\ f.manifests[path].ok
  THEN f.manifests[path]
  ELSE NoPkg

\* Node's require.resolve(name + "/package.json", {paths: [dir]}): the nearest
\* node_modules/name/package.json of dir and of its ancestors, "/" included
RECURSIVE requireResolve(_, _, _)
requireResolve(f, packageName, dir) ==
  LET p == join(dir, <<NM, packageName, PkgJson>>)
  IN IF IsFile(f, p) THEN p
     ELSE IF Len(dir) = 0 THEN NoPath
     ELSE requireResolve(f, packageName, dirname(dir))

\* a faulty variant of findPackageJsonPath: only the project's own
\* node_modules is looked at
findPackageJsonPathDirectOnly(f, packageName, cwd) ==
  LET nodeModulesPath == join(cwd, <<NM, packageName, PkgJson>>)
  IN IF existsSync(f, nodeModulesPath) THEN nodeModulesPath ELSE NoPath

findPackageJsonPath(f, packageName, cwd) ==
  LET resolved == requireResolve(f, packageName, cwd)
      nodeModulesPath == join(cwd, <<NM, packageName, PkgJson>>)
  IN IF resolved # NoPath THEN resolved
     ELSE IF existsSync(f, nodeModulesPath) THEN nodeModulesPath
     ELSE NoPath

RECURSIVE findPackageInNodeModules(_, _, _)
findPackageInNodeModules(f, packageName, basePath) ==
  LET p1 == join(basePath, <<NM, packageName, PkgJson>>)
      p2 == join(basePath, <<packageName, PkgJson>>)
      parent == dirname(basePath)
  IN IF existsSync(f, p1) THEN p1
     ELSE IF existsSync(f, p2) THEN p2
     ELSE IF parent # basePath /\ parent # <<>>
          THEN findPackageInNodeModules(f, packageName, parent)
          ELSE NoPath

\* a faulty variant of SetDep: the name is always added as a new key
SetDepAppends(deps, name, type) == Append(deps, [name |-> name, type |-> type])

\* deps[name] = type on the ordered record deps: an existing key keeps its
\* place and takes the new type, a new key goes last
SetDep(deps, name, type) ==
  IF \E i \in 1..Len(deps) : deps[i].name = name
  THEN [i \in 1..Len(deps) |->
          IF deps[i].name = name THEN [name |-> name, type |-> type] ELSE deps[i]]
  ELSE Append(deps, [name |-> name, type |-> type])

RECURSIVE SetDeps(_, _, _)
SetDeps(deps, names, type) ==
  IF Len(names) = 0 THEN deps
  ELSE SetDeps(SetDep(deps, Head(names), type), Tail(names), type)

\* a faulty variant of getAllDependencies: the maps are merged in the reverse
\* order, so the first map listing a name decides its type
getAllDependenciesFirstWins(pkg) ==
  SetDeps(SetDeps(SetDeps(SetDeps(<<>>,
    pkg.optionalDependencies, "optional"),
    pkg.peerDependencies, "peer"),
    pkg.devDependencies, "dev"),
    pkg.dependencies, "prod")

getAllDependencies(pkg) ==
  SetDeps(SetDeps(SetDeps(SetDeps(<<>>,
    pkg.dependencies, "prod"),
    pkg.devDependencies, "dev"),
    pkg.peerDependencies, "peer"),
    pkg.optionalDependencies, "optional")

-----------------------------------------------------------------------------
(* findDependencyPaths *)

\* default of the maxDepth parameter; analyzePackage passes no other
maxDepth == 10

QueueItem(packageName, chain, packageJsonPath) ==
  [packageName |-> packageName, chain |-> chain, packageJsonPath |-> packageJsonPath]

\* a faulty variant of VisitKey: the manifest path is left out of the key
VisitKeyNameOnly(currentPackageName, packageJsonPath) == currentPackageName

VisitKey(currentPackageName, packageJsonPath) ==
  currentPackageName \o ":" \o PathStr(packageJsonPath)

\* a faulty variant of HasVisited: the cycle guard never triggers
HasVisitedNever(visitedKeys, visitKey) == FALSE

\* visited.has(visitKey)
HasVisited(visitedKeys, visitKey) == visitKey \in visitedKeys

\* a faulty variant of EmitChain: the chain is pushed without the target
EmitChainWithoutTarget(current, currentPackageName, depName) ==
  IF currentPackageName # ""
  THEN (IF Len(current.chain) > 0
        THEN current.chain \o <<currentPackageName>>
        ELSE <<currentPackageName>>)
  ELSE <<>>

\* the chain pushed to paths for an edge to the target
EmitChain(current, currentPackageName, depName) ==
  IF currentPackageName # ""
  THEN (IF Len(current.chain) > 0
        THEN current.chain \o <<currentPackageName, depName>>
        ELSE <<currentPackageName, depName>>)
  ELSE <<depName>>

\* a faulty variant of NewChain: the chain so far is dropped
NewChainWithoutPrefix(current, currentPackageName) ==
  IF currentPackageName # "" THEN <<currentPackageName>> ELSE <<>>

\* the chain of the item queued for an edge to another module
NewChain(current, currentPackageName) ==
  IF currentPackageName # ""
  THEN (IF Len(current.chain) > 0
        THEN current.chain \o <<currentPackageName>>
        ELSE <<currentPackageName>>)
  ELSE <<>>

\* the for loop over Object.entries(allDeps), from entry i on;
\* st = [paths, queue]
RECURSIVE ExpandLoop(_, _, _, _, _, _, _)
ExpandLoop(f, t, current, currentPackageName, allDeps, i, st) ==
  IF i > Len(allDeps) THEN st
  ELSE
    LET depName == allDeps[i].name
        depType == allDeps[i].type
        depPackageJsonPath ==
          findPackageInNodeModules(f, depName, dirname(current.packageJsonPath))
        next ==
          IF depName = t
          THEN [st EXCEPT !.paths = Append(@,
                  [chain |-> EmitChain(current, currentPackageName, depName),
                   type |-> depType,
                   packageJsonPath |-> current.packageJsonPath])]
          ELSE IF depPackageJsonPath # NoPath
          THEN [st EXCEPT !.queue = Append(@,
                  QueueItem(depName, NewChain(current, currentPackageName),
                            depPackageJsonPath))]
          ELSE st
    IN ExpandLoop(f, t, current, currentPackageName, allDeps, i + 1, next)

\* a faulty variant of Shift: the first item is read and left in the queue
ShiftKeepsHead(q) == q

\* queue.shift(): the queue without its first item
Shift(q) == Tail(q)

\* a faulty variant of TooDeep: no item is too deep
TooDeepNever(current) == FALSE

\* if (current.chain.length > maxDepth) continue
TooDeep(current) == Len(current.chain) > maxDepth

\* a faulty variant of NoManifest: the loop is left for good
NoManifestStops(rest) == [rest EXCEPT !.queue = <<>>]

\* if (!pkg) continue: the item is dropped, the rest of the loop state kept
NoManifest(rest) == rest

\* one iteration of the while loop; st = [paths, queue, visited]
LoopBody(f, t, st) ==
  LET current == Head(st.queue)
      rest == [st EXCEPT !.queue = Shift(@)]
      pkg == readPackageJson(f, current.packageJsonPath)
      allDeps == getAllDependencies(pkg)
      currentPackageName ==
        IF current.packageName # "" THEN current.packageName ELSE pkg.name
      visitKey == VisitKey(currentPackageName, current.packageJsonPath)
      grown == ExpandLoop(f, t, current, currentPackageName, allDeps, 1,
                          [paths |-> rest.paths, queue |-> rest.queue])
  IN IF TooDeep(current) THEN rest
     ELSE IF ~pkg.ok THEN NoManifest(rest)
     ELSE IF HasVisited(st.visited, visitKey) THEN rest
     ELSE [paths |-> grown.paths, queue |-> grown.queue,
           visited |-> st.visited \cup {visitKey}]

\* the while loop run to its end: the paths it returns
RECURSIVE WhileLoop(_, _, _)
WhileLoop(f, t, st) ==
  IF Len(st.queue) = 0 THEN st.paths ELSE WhileLoop(f, t, LoopBody(f, t, st))

\* the whole call findDependencyPaths(t, Cwd)
findDependencyPaths(f, t) ==
  IF ~existsSync(f, RootPkg) THEN <<>>
  ELSE WhileLoop(f, t, [paths |-> <<>>, queue |-> <<QueueItem("", <<>>, RootPkg)>>,
                        visited |-> {}])

-----------------------------------------------------------------------------
(* analyzePackage: de-duplication and suggestions *)

\* a faulty variant of PathKey: the type is left out of the key
PathKeyChainOnly(path) == JoinStr(path.chain, "->")

PathKey(path) == path.type \o ":" \o JoinStr(path.chain, "->")

\* paths.filter with the pathKeys set, from element i on
RECURSIVE DedupLoop(_, _, _, _)
DedupLoop(ps, i, pathKeys, kept) ==
  IF i > Len(ps) THEN kept
  ELSE IF PathKey(ps[i]) \in pathKeys
       THEN DedupLoop(ps, i + 1, pathKeys, kept)
       ELSE DedupLoop(ps, i + 1, pathKeys \cup {PathKey(ps[i])}, Append(kept, ps[i]))

Dedup(ps) == DedupLoop(ps, 1, {}, <<>>)

NotInTree(t) == "Package \"" \o t \o "\" is not in dependency tree"
DevSuggestion == "Consider removing from devDependencies if not needed for development"
PeerSuggestion ==
  "This is a peer dependency - ensure all consumers satisfy the peer requirement"
RedundantSuggestion ==
  "Can be removed from direct dependencies - it's installed transitively"

NotFoundMessage(t) == "Package \"" \o t \o "\" not found in node_modules"

\* a faulty variant of Suggest: every chain that is not a production chain
\* counts as a development chain
SuggestDevForNonProd(ps, t, rootPackageJson) ==
  IF Len(ps) = 0 THEN <<NotInTree(t)>>
  ELSE
    LET devPaths == SelectSeq(ps, LAMBDA p : p.type # "prod")
        peerPaths == SelectSeq(ps, LAMBDA p : p.type = "peer")
        directDeps ==
          SelectSeq(ps, LAMBDA p : Len(p.chain) = 1 /\ p.packageJsonPath = rootPackageJson)
    IN (IF Len(devPaths) > 0 THEN <<DevSuggestion>> ELSE <<>>)
       \o (IF Len(peerPaths) > 0 THEN <<PeerSuggestion>> ELSE <<>>)
       \o (IF Len(directDeps) > 0 /\ Len(ps) > Len(directDeps)
           THEN <<RedundantSuggestion>> ELSE <<>>)

Suggest(ps, t, rootPackageJson) ==
  IF Len(ps) = 0 THEN <<NotInTree(t)>>
  ELSE
    LET devPaths == SelectSeq(ps, LAMBDA p : p.type = "dev")
        peerPaths == SelectSeq(ps, LAMBDA p : p.type = "peer")
        directDeps ==
          SelectSeq(ps, LAMBDA p : Len(p.chain) = 1 /\ p.packageJsonPath = rootPackageJson)
    IN (IF Len(devPaths) > 0 THEN <<DevSuggestion>> ELSE <<>>)
       \o (IF Len(peerPaths) > 0 THEN <<PeerSuggestion>> ELSE <<>>)
       \o (IF Len(directDeps) > 0 /\ Len(ps) > Len(directDeps)
           THEN <<RedundantSuggestion>> ELSE <<>>)

-----------------------------------------------------------------------------
(* sizeMapAnalyzer: sizes *)

\* What the string functions of the program give on the entry names of the
\* model: name.toLowerCase(), extname(name), lower.endsWith('.d.ts') and
\* lower.startsWith('.').  A name that is not listed is a lower-case name
\* without a dot (a directory or module name).
EntryTable ==
  [ n \in {"index.js", "util.mjs", "Main.CJS", "spec.js", ".hidden.js",
           "index.d.ts", "README.md", "package.json"} |->
      CASE n = "index.js"     -> [lower |-> "index.js",     ext |-> ".js",   dts |-> FALSE, dot |-> FALSE]
        [] n = "util.mjs"     -> [lower |-> "util.mjs",     ext |-> ".mjs",  dts |-> FALSE, dot |-> FALSE]
        [] n = "Main.CJS"     -> [lower |-> "main.cjs",     ext |-> ".CJS",  dts |-> FALSE, dot |-> FALSE]
        [] n = "spec.js"      -> [lower |-> "spec.js",      ext |-> ".js",   dts |-> FALSE, dot |-> FALSE]
        [] n = ".hidden.js"   -> [lower |-> ".hidden.js",   ext |-> ".js",   dts |-> FALSE, dot |-> TRUE]
        [] n = "index.d.ts"   -> [lower |-> "index.d.ts",   ext |-> ".ts",   dts |-> TRUE,  dot |-> FALSE]
        [] n = "README.md"    -> [lower |-> "readme.md",    ext |-> ".md",   dts |-> FALSE, dot |-> FALSE]
        [] n = "package.json" -> [lower |-> "package.json", ext |-> ".json", dts |-> FALSE, dot |-> FALSE] ]

EntryInfo(name) ==
  IF name \in DOMAIN EntryTable THEN EntryTable[name]
  ELSE [lower |-> name, ext |-> "", dts |-> FALSE, dot |-> FALSE]

toLowerCase(name) ==
  IF name \in {".js", ".mjs", ".cjs"} THEN name
  ELSE IF name = ".CJS" THEN ".cjs"
  ELSE EntryInfo(name).lower

extname(name) == EntryInfo(name).ext

JS_EXTENSIONS == {".js", ".mjs", ".cjs"}

EXCLUDE_DIRS == {"test", "tests", "__tests__", "docs", "doc", "types", "@types", "typings", ".d.ts"}

\* a faulty variant of shouldExclude: no name is excluded
shouldExcludeNothing(name) == FALSE

shouldExclude(name) ==
  LET lower == toLowerCase(name)
  IN lower \in EXCLUDE_DIRS \/ EntryInfo(name).dts \/ EntryInfo(name).dot

\* stats.size of the regular file at p
FileSize(f, p) == IF p \in DOMAIN f.files THEN f.files[p] ELSE 0

\* number | undefined: what findPackageSize returns
Undefined == [defined |-> FALSE, value |-> 0]
Number(n) == [defined |-> TRUE, value |-> n]

\* a faulty variant of SubSize: subdirectories are not entered
SubSizeFlat(subSize) == 0

\* if (subSize) totalSize += subSize
SubSize(subSize) == IF subSize.defined /\ subSize.value # 0 THEN subSize.value ELSE 0

\* the for loop of findPackageSize over the entries still to visit
RECURSIVE findPackageSizeFiles(_, _, _)
RECURSIVE findPackageSize(_, _)
findPackageSizeFiles(f, packagePath, files) ==
  IF files = {} THEN 0
  ELSE LET file == CHOOSE e \in files : TRUE
           filePath == Append(packagePath, file)
           rest == findPackageSizeFiles(f, packagePath, files \ {file})
       IN IF statThrows(f, filePath) THEN rest
          ELSE IF IsDirectory(f, filePath)
               THEN SubSize(findPackageSize(f, filePath)) + rest
          ELSE FileSize(f, filePath) + rest

findPackageSize(f, packagePath) ==
  IF statThrows(f, packagePath) THEN Undefined
  ELSE IF IsDirectory(f, packagePath)
       THEN IF readdirThrows(f, packagePath) THEN Undefined
            ELSE Number(findPackageSizeFiles(f, packagePath, readdirSync(f, packagePath)))
  ELSE Undefined

\* a faulty variant of IsNodeModules: no directory is taken for node_modules
IsNodeModulesNever(entry) == FALSE

\* entry !== 'node_modules' fails: the directory is not entered
IsNodeModules(entry) == entry = NM

\* the for loop of calculateJsSize over the entries still to visit
RECURSIVE calculateJsSizeEntries(_, _, _)
RECURSIVE calculateJsSize(_, _)
calculateJsSizeEntries(f, dir, entries) ==
  IF entries = {} THEN 0
  ELSE LET entry == CHOOSE e \in entries : TRUE
           fullPath == Append(dir, entry)
           rest == calculateJsSizeEntries(f, dir, entries \ {entry})
       IN IF shouldExclude(entry) THEN rest
          ELSE IF statThrows(f, fullPath) THEN rest
          ELSE IF IsDirectory(f, fullPath)
               THEN IF ~IsNodeModules(entry)
                    THEN calculateJsSize(f, fullPath) + rest
                    ELSE rest
          ELSE IF toLowerCase(extname(entry)) \in JS_EXTENSIONS
               THEN FileSize(f, fullPath) + rest
          ELSE rest

calculateJsSize(f, dir) ==
  IF readdirThrows(f, dir) THEN 0
  ELSE calculateJsSizeEntries(f, dir, readdirSync(f, dir))

\* walkDir of getNodeModulesSize: every directory is entered, nothing excluded
RECURSIVE walkDir(_, _, _)
walkDir(f, dir, entries) ==
  IF entries = {} THEN 0
  ELSE LET entry == CHOOSE e \in entries : TRUE
           fullPath == Append(dir, entry)
           rest == walkDir(f, dir, entries \ {entry})
       IN IF statThrows(f, fullPath) THEN rest
          ELSE IF IsDirectory(f, fullPath)
          THEN (IF readdirThrows(f, fullPath) THEN 0
                ELSE walkDir(f, fullPath, readdirSync(f, fullPath))) + rest
          ELSE IF toLowerCase(extname(entry)) \in JS_EXTENSIONS
               THEN FileSize(f, fullPath) + rest
          ELSE rest

getNodeModulesSize(f, cwd) ==
  LET nmPath == join(cwd, <<NM>>)
  IN IF readdirThrows(f, nmPath) THEN 0 ELSE walkDir(f, nmPath, readdirSync(f, nmPath))

\* findPackagePath: the module's directory straight under cwd/node_modules.
\* (The branch for scoped names joins the same path again; the names of the
\* model are unscoped.)
findPackagePath(f, packageName, cwd) ==
  LET directPath == join(cwd, <<NM, packageName>>)
  IN IF existsSync(f, directPath) THEN directPath ELSE NoPath

\* a call of getDependencyTree in progress: its package directory and the
\* keys of pkg.dependencies its for loop has still to visit
Frame(f, packagePath) ==
  LET pkg == readPackageJson(f, join(packagePath, <<PkgJson>>))
  IN [packagePath |-> packagePath,
      keys |-> IF pkg.ok THEN pkg.dependencies ELSE <<>>]

\* a faulty variant of SeenInTree: no name counts as visited
SeenInTreeNever(names, depName) == FALSE

\* visited.has(depName)
SeenInTree(names, depName) == depName \in names

\* getDependencyTree: the directory a dependency is taken from, the nested
\* node_modules first
DepPath(f, packagePath, depName, cwd) ==
  LET nested == join(packagePath, <<NM, depName>>)
  IN IF ~existsSync(f, nested) THEN join(cwd, <<NM, depName>>) ELSE nested

\* a faulty variant of SortBySize: the entries stay in the order of the walk
SortBySizeNot(items) == items

\* depBreakdown.sort((a, b) => b.size - a.size): stable, largest first
RECURSIVE InsertBySize(_, _)
InsertBySize(sorted, item) ==
  IF sorted = <<>> THEN <<item>>
  ELSE IF Head(sorted).size >= item.size
       THEN <<Head(sorted)>> \o InsertBySize(Tail(sorted), item)
       ELSE <<item>> \o sorted

RECURSIVE SortBySize(_)
SortBySize(items) ==
  IF items = <<>> THEN <<>>
  ELSE InsertBySize(SortBySize(SubSeq(items, 1, Len(items) - 1)), items[Len(items)])

\* breakdown.reduce((sum, item) => sum + item.size, 0)
RECURSIVE SumSizes(_)
SumSizes(items) ==
  IF items = <<>> THEN 0 ELSE Head(items).size + SumSizes(Tail(items))

SizeNotFoundMessage(packageName) ==
  "Package \"" \o packageName \o "\" not found in node_modules"

-----------------------------------------------------------------------------
(* The file systems the model runs on *)

\* the order in which the generated manifests list their keys
KeyOrder == <<"a", "t", "b", "c", "proj">>

\* the modules of the generated graphs
Names == {"a", "t", "b", "c"}

\* the <package-name> the command is run with
Targets == {"t"}

SeqOf(S) == SelectSeq(KeyOrder, LAMBDA n : n \in S)

HoistedPath(n) == join(Cwd, <<NM, n, PkgJson>>)
NestedPath(p, n) == join(Cwd, <<NM, p, NM, n, PkgJson>>)

\* A generated manifest graph G is a set of declarations <<src, dst, cat>>:
\* the manifest labelled src lists dst in its cat map ("" labels the project).
DeclNames(G, src, cat) == { g[2] : g \in { x \in G : x[1] = src /\ x[3] = cat } }

ManifestOf(name, G, src) ==
  Manifest(name, SeqOf(DeclNames(G, src, "prod")), SeqOf(DeclNames(G, src, "dev")),
           SeqOf(DeclNames(G, src, "peer")), SeqOf(DeclNames(G, src, "optional")))

Malformed == [NoPkg EXCEPT !.name = "malformed"]

\* an installed package.json: where it is, what it holds
Install(path, name, src, ok) == [path |-> path, name |-> name, src |-> src, ok |-> ok]

\* the file system with the manifests of installs (paths pairwise distinct)
MkFs(G, installs) ==
  [manifests |->
     [p \in { i.path : i \in installs } |->
        LET i == CHOOSE j \in installs : j.path = p
        IN IF i.ok THEN ManifestOf(i.name, G, i.src) ELSE Malformed],
   files |-> <<>>]

RootNames == {"", "proj"}

\* Family 1: production-only graphs over the hoisted modules, every manifest
\* readable, at most MaxEdges declarations
GraphEntries ==
  { <<src, dst, "prod">> : src \in {"", "a", "b", "c", "t"}, dst \in Names }
    \ { <<n, n, "prod">> : n \in Names }

HoistedAll == { Install(HoistedPath(n), n, n, TRUE) : n \in Names }

GraphFilesystemsUpTo(k) ==
  { MkFs(G, {Install(RootPkg, rn, "", TRUE)} \cup HoistedAll) :
      G \in { E \in SUBSET GraphEntries : Cardinality(E) <= k },
      rn \in RootNames }

GraphFilesystems == GraphFilesystemsUpTo(MaxEdges)

\* Family 2: category mixes on project -> a, project -> t and a -> t, at
\* most MaxCatDecls declarations
CatEntries ==
  { <<e[1], e[2], Cats[k]>> : e \in {<<"", "a">>, <<"", "t">>, <<"a", "t">>},
                              k \in 1..Len(Cats) }

CatFilesystems ==
  { MkFs(G, {Install(RootPkg, rn, "", TRUE),
             Install(HoistedPath("a"), "a", "a", TRUE),
             Install(HoistedPath("t"), "t", "t", TRUE)}) :
      G \in { E \in SUBSET CatEntries : Cardinality(E) <= MaxCatDecls },
      rn \in RootNames }

\* Family 3: missing and malformed manifests.  The project manifest and the
\* manifests of a, b and t are each readable, malformed or missing.
Edges(src, dsts) == { <<src, d, "prod">> : d \in dsts }

BrokenGraphs ==
  { Edges("", r) \cup Edges("a", a) \cup Edges("b", b) :
      r \in {{"a", "b"}, {"a", "b", "t"}, {"a"}},
      a \in {{"b", "t"}, {"t"}, {"b"}},
      b \in {{"t"}, {"a", "t"}} }

Status == {"ok", "malformed", "missing"}

StatusInstall(path, name, src, status) ==
  IF status = "missing" THEN {} ELSE {Install(path, name, src, status = "ok")}

BrokenFilesystems ==
  { MkFs(G, StatusInstall(RootPkg, "", "", sr)
            \cup StatusInstall(HoistedPath("a"), "a", "a", sa)
            \cup StatusInstall(HoistedPath("b"), "b", "b", sb)
            \cup StatusInstall(HoistedPath("t"), "t", "t", st)) :
      G \in BrokenGraphs, sr \in Status, sa \in Status, sb \in Status,
      st \in Status }

\* Family 4: where a module can be installed.  project -> a -> b -> t (and
\* project -> b in half of them); b and t are installed in any of: the
\* project's node_modules, a's own node_modules, the node_modules of /w and
\* of /, a plain directory of the project, a plain directory of a.
PlacesOf(n) ==
  { HoistedPath(n),
    NestedPath("a", n),
    <<"w", NM, n, PkgJson>>,
    <<NM, n, PkgJson>>,
    join(Cwd, <<n, PkgJson>>),
    join(Cwd, <<NM, "a", n, PkgJson>>) }

TargetPlaces ==
  { {}, {HoistedPath("t")}, {<<"w", NM, "t", PkgJson>>}, {<<NM, "t", PkgJson>>},
    {join(Cwd, <<"t", PkgJson>>)} }

PlacedGraphs ==
  { Edges("", {"a"} \cup r) \cup Edges("a", {"b"}) \cup Edges("b", {"t"}) :
      r \in {{}, {"b"}} }

PlacedFilesystems ==
  { MkFs(G, {Install(RootPkg, "", "", TRUE), Install(HoistedPath("a"), "a", "a", TRUE)}
            \cup { Install(p, "b", "b", TRUE) : p \in bs }
            \cup { Install(p, "t", "t", TRUE) : p \in ts }) :
      G \in PlacedGraphs, bs \in SUBSET PlacesOf("b"), ts \in TargetPlaces }

\* Family 5: a module that depends on a package named like the project's
\* directory, which the locator resolves to the project manifest itself
SelfFilesystems ==
  { MkFs(Edges("", {"a", "t"}) \cup Edges("a", {"proj"} \cup at),
         {Install(RootPkg, rn, "", TRUE),
          Install(HoistedPath("a"), "a", "a", TRUE),
          Install(HoistedPath("t"), "t", "t", TRUE)}) :
      rn \in {"", "proj", "app"}, at \in {{}, {"t"}} }

\* Family 6: long chains project -> m1 -> m2 -> ... -> mL, around maxDepth
\* deep; every module of the chain, or only the last, depends on t
ChainName(i) == "m" \o ToString(i)

ChainManifest(i, len, all) ==
  Manifest(ChainName(i),
           (IF i < len THEN <<ChainName(i + 1)>> ELSE <<>>)
             \o (IF all \/ i = len THEN <<"t">> ELSE <<>>),
           <<>>, <<>>, <<>>)

ChainFs(len, rn, all) ==
  [manifests |->
     [p \in {RootPkg, HoistedPath("t")} \cup { HoistedPath(ChainName(i)) : i \in 1..len } |->
        IF p = RootPkg THEN Manifest(rn, <<ChainName(1)>>, <<>>, <<>>, <<>>)
        ELSE IF p = HoistedPath("t") THEN Manifest("t", <<>>, <<>>, <<>>, <<>>)
        ELSE ChainManifest(CHOOSE i \in 1..len : p = HoistedPath(ChainName(i)), len, all)],
   files |-> <<>>]

ChainFilesystems ==
  { ChainFs(len, rn, all) :
      len \in (MaxChain - 2)..MaxChain, rn \in RootNames, all \in BOOLEAN }

Filesystems ==
  GraphFilesystems \cup CatFilesystems \cup BrokenFilesystems \cup PlacedFilesystems
  \cup SelfFilesystems \cup ChainFilesystems

\* File systems of the size map: modules t, a, b and c declare one another in
\* `dependencies`; t, a and b are hoisted, c is absent, hoisted, nested in b's
\* own node_modules, or both.  Every copy holds an index.js whose size is
\* its own power of two, so a sum of sizes tells which copies went into it.
SizeGraphs ==
  { G \in SUBSET { <<x, y, "prod">> : x \in Names, y \in Names } :
      /\ Cardinality(G) <= MaxSizeEdges
      /\ \A g \in G : g[1] # g[2] }

ModuleDir(n) == join(Cwd, <<NM, n>>)
NestedDir(p, n) == join(Cwd, <<NM, p, NM, n>>)

Layouts == {"none", "hoisted", "nested", "both"}
Contents == {"bare", "index", "extras"}

\* the files of a module directory next to its package.json
ContentFiles(dir, content, indexSize) ==
  IF content = "bare" THEN {}
  ELSE IF content = "index" THEN { <<Append(dir, "index.js"), indexSize>> }
  ELSE { <<Append(dir, "index.js"), indexSize>>,
         <<Append(dir, "README.md"), 100>>,
         <<Append(dir, "index.d.ts"), 32>>,
         <<join(dir, <<"test", "spec.js">>), 64>>,
         <<join(dir, <<"lib", "util.mjs">>), 128>>,
         <<Append(dir, ".hidden.js"), 256>>,
         <<Append(dir, "Main.CJS"), 512>> }

SizeInstalls(tHere, cLayout) ==
  { Install(RootPkg, "", "", TRUE),
    Install(HoistedPath("a"), "a", "a", TRUE),
    Install(HoistedPath("b"), "b", "b", TRUE) }
  \cup (IF tHere THEN { Install(HoistedPath("t"), "t", "t", TRUE) } ELSE {})
  \cup (IF cLayout \in {"hoisted", "both"}
        THEN { Install(HoistedPath("c"), "c", "c", TRUE) } ELSE {})
  \cup (IF cLayout \in {"nested", "both"}
        THEN { Install(NestedPath("b", "c"), "c", "c", TRUE) } ELSE {})

SizeFiles(tHere, cLayout, tContent, aContent) ==
  ContentFiles(ModuleDir("a"), aContent, 2)
  \cup ContentFiles(ModuleDir("b"), "index", 4)
  \cup (IF tHere THEN ContentFiles(ModuleDir("t"), tContent, 1) ELSE {})
  \cup (IF cLayout \in {"hoisted", "both"}
        THEN ContentFiles(ModuleDir("c"), "index", 8) ELSE {})
  \cup (IF cLayout \in {"nested", "both"}
        THEN ContentFiles(NestedDir("b", "c"), "index", 16) ELSE {})

MkSizeFs(G, tHere, cLayout, tContent, aContent) ==
  LET sized == SizeFiles(tHere, cLayout, tContent, aContent)
  IN [manifests |-> MkFs(G \cup {<<"", "t", "prod">>}, SizeInstalls(tHere, cLayout)).manifests,
      files |-> [q \in { x[1] : x \in sized } |-> (CHOOSE x \in sized : x[1] = q)[2]]]

SizeFilesystems ==
  { MkSizeFs(G, TRUE, cl, tc, ac) :
      G \in SizeGraphs, cl \in Layouts, tc \in Contents, ac \in {"bare", "index"} }
  \cup { MkSizeFs(G, FALSE, cl, "index", "index") :
           G \in { H \in SizeGraphs : Cardinality(H) <= 1 }, cl \in Layouts }

\* File systems the size functions are applied to by themselves: the
\* directory of module t holds at most MaxTreeFiles files of TreeMenu (each
\* with its own power of two as size), some empty directories, and at most
\* one entry that cannot be read.
TreeBase == ModuleDir("t")

TreeMenu ==
  { <<<<"index.js">>, 1>>, <<<<"README.md">>, 2>>, <<<<"index.d.ts">>, 4>>,
    <<<<"lib", "util.mjs">>, 8>>, <<<<"test", "spec.js">>, 16>>,
    <<<<".hidden.js">>, 32>>, <<<<"Main.CJS">>, 64>>,
    <<<<"node_modules", "c", "index.js">>, 128>>, <<<<"package.json">>, 256>>,
    <<<<"lib", "types", "x.js">>, 512>> }

TreeEmptyDirs == { <<"empty">>, <<"lib", "none">> }

TreeUnreadable == { {}, {<<"index.js">>}, {<<"lib">>} }

MkTree(sized, empty, unreadable) ==
  [manifests |-> <<>>,
   files |-> [q \in { join(TreeBase, x[1]) : x \in sized } |->
                (CHOOSE x \in sized : join(TreeBase, x[1]) = q)[2]],
   dirs |-> { join(TreeBase, e) : e \in empty },
   unreadable |-> { join(TreeBase, u) : u \in unreadable }]

\* one 2048-byte source file and one 100-byte documentation file
ScenarioTree == MkTree({ <<<<"index.js">>, 2048>>, <<<<"README.md">>, 100>> }, {}, {})

TreeFilesystems ==
  { MkTree(sized, empty, unreadable) :
      sized \in { S \in SUBSET TreeMenu : Cardinality(S) <= MaxTreeFiles },
      empty \in SUBSET TreeEmptyDirs,
      unreadable \in TreeUnreadable }
  \cup { ScenarioTree }

TreeDirs ==
  { TreeBase, Append(TreeBase, "lib"), Append(TreeBase, "empty"),
    Append(TreeBase, "test"), Append(TreeBase, "index.js"), Append(TreeBase, "missing") }

-----------------------------------------------------------------------------
(* The command *)

NoResult == [returned |-> FALSE, size |-> Undefined, paths |-> <<>>, suggestions |-> <<>>]
NoSizeResult ==
  [returned |-> FALSE, packageName |-> "", totalSize |-> 0, breakdown |-> <<>>,
   nodeModulesSize |-> 0, percentOfNodeModules |-> <<0, 1>>]

InitCommon ==
  /\ pc = "cli"
  /\ queue = <<>>
  /\ visited = {}
  /\ paths = <<>>
  /\ result = NoResult
  /\ error = ""
  /\ exitCode = -1
  /\ ownSize = 0
  /\ treeVisited = {}
  /\ stack = <<>>
  /\ breakdown = <<>>
  /\ sizeResult = NoSizeResult
  /\ measuredDir = NoPath
  /\ packageSize = Undefined
  /\ jsSize = 0
  /\ givenPkg = NoPkg
  /\ flatDeps = <<>>
  /\ startDir = NoPath
  /\ located = NoPath

Init ==
  /\ fs \in Filesystems
  /\ target \in Targets
  /\ options = [sizeMap |-> FALSE]
  /\ InitCommon

\* cli.ts action, analyzePackage up to its call of findDependencyPaths:
\* the target's manifest is located, or the Error is thrown and caught
AnalyzePackage ==
  /\ pc = "cli"
  /\ ~options.sizeMap
  /\ IF findPackageJsonPath(fs, target, Cwd) = NoPath
     THEN /\ error' = NotFoundMessage(target)
          /\ exitCode' = 1
          /\ pc' = "exit"
     ELSE /\ pc' = "findDependencyPaths"
          /\ UNCHANGED <<error, exitCode>>
  /\ UNCHANGED <<fs, target, options, measureVars, flattenVars, locateVars, resolverVars, sizeVars>>

\* findDependencyPaths up to its while loop
FindDependencyPaths ==
  /\ pc = "findDependencyPaths"
  /\ IF ~existsSync(fs, RootPkg)
     THEN /\ pc' = "dedup"
          /\ UNCHANGED queue
     ELSE /\ queue' = <<QueueItem("", <<>>, RootPkg)>>
          /\ pc' = "while"
  /\ UNCHANGED <<fs, target, options, measureVars, flattenVars, locateVars, visited, paths, result, error, exitCode, sizeVars>>

\* one iteration of the while loop, and the loop's exit when the queue is empty
Dequeue ==
  /\ pc = "while"
  /\ Len(queue) > 0
  /\ LET st == LoopBody(fs, target,
                        [paths |-> paths, queue |-> queue, visited |-> visited])
     IN /\ paths' = st.paths
        /\ queue' = st.queue
        /\ visited' = st.visited
        /\ pc' = IF Len(st.queue) > 0 THEN "while" ELSE "dedup"
  /\ UNCHANGED <<fs, target, options, measureVars, flattenVars, locateVars, result, error, exitCode, sizeVars>>

\* analyzePackage after findDependencyPaths returned, and the action's exit
Finish ==
  /\ pc = "dedup"
  /\ result' = [returned |-> TRUE,
                size |-> findPackageSize(fs, dirname(findPackageJsonPath(fs, target, Cwd))),
                paths |-> Dedup(paths),
                suggestions |-> Suggest(Dedup(paths), target, RootPkg)]
  /\ exitCode' = 0
  /\ pc' = "exit"
  /\ UNCHANGED <<fs, target, options, measureVars, flattenVars, locateVars, queue, visited, paths, error, sizeVars>>

Next == AnalyzePackage \/ FindDependencyPaths \/ Dequeue \/ Finish

Spec == Init /\ [][Next]_vars

\* The de-duplication and the suggestions on their own: analyzePackage from
\* the return of findDependencyPaths on, for any list of at most MaxList paths
PathRecords ==
  { [chain |-> c, type |-> ty, packageJsonPath |-> p] :
      c \in {<<"t">>, <<"a", "t">>, <<"b", "t">>},
      ty \in {"prod", "dev", "peer"},
      p \in {RootPkg, HoistedPath("a")} }

PathLists == UNION { [1..n -> PathRecords] : n \in 0..MaxList }

DedupInit ==
  /\ fs = MkFs({}, {Install(RootPkg, "", "", TRUE), Install(HoistedPath("t"), "t", "t", TRUE)})
  /\ target \in Targets
  /\ options = [sizeMap |-> FALSE]
  /\ pc = "dedup"
  /\ queue = <<>>
  /\ visited = {}
  /\ paths \in PathLists
  /\ result = NoResult
  /\ error = ""
  /\ exitCode = -1
  /\ ownSize = 0
  /\ treeVisited = {}
  /\ stack = <<>>
  /\ breakdown = <<>>
  /\ sizeResult = NoSizeResult
  /\ measuredDir = NoPath
  /\ packageSize = Undefined
  /\ jsSize = 0
  /\ givenPkg = NoPkg
  /\ flatDeps = <<>>
  /\ startDir = NoPath
  /\ located = NoPath

DedupSpec == DedupInit /\ [][Finish]_vars

\* The runs termination is checked on: the graphs of at most MaxLiveEdges
\* declarations (cycles among them), the self-dependent and the long chains.
LiveFilesystems ==
  GraphFilesystemsUpTo(MaxLiveEdges) \cup SelfFilesystems \cup ChainFilesystems

LiveInit ==
  /\ fs \in LiveFilesystems
  /\ target \in Targets
  /\ options = [sizeMap |-> FALSE]
  /\ InitCommon

\* The command is one synchronous call: a step that can be taken is taken.
FairSpec == LiveInit /\ [][Next]_vars /\ WF_vars(Next)

\* The size map: the command with --size-map
SizeInit ==
  /\ fs \in SizeFilesystems
  /\ target \in Targets
  /\ options = [sizeMap |-> TRUE]
  /\ InitCommon

\* cli.ts action, analyzeSizeMap up to its call of getDependencyTree: the
\* target's directory is found, or the Error is thrown and caught
AnalyzeSizeMap ==
  /\ pc = "cli"
  /\ options.sizeMap
  /\ LET packagePath == findPackagePath(fs, target, Cwd)
     IN IF packagePath = NoPath
        THEN /\ error' = SizeNotFoundMessage(target)
             /\ exitCode' = 1
             /\ pc' = "exit"
             /\ UNCHANGED <<ownSize, treeVisited, stack>>
        ELSE /\ ownSize' = calculateJsSize(fs, packagePath)
             /\ treeVisited' = {target}
             /\ stack' = <<Frame(fs, packagePath)>>
             /\ pc' = "getDependencyTree"
             /\ UNCHANGED <<error, exitCode>>
  /\ UNCHANGED <<fs, target, options, measureVars, flattenVars, locateVars, resolverVars, breakdown, sizeResult>>

\* getDependencyTree: one iteration of the for loop of the innermost call,
\* or its return when the loop is over.  stack holds the calls in progress,
\* innermost first; breakdown holds the entries pushed so far, which is the
\* order they have in the outermost call's array.
GetDependencyTree ==
  /\ pc = "getDependencyTree"
  /\ Len(stack) > 0
  /\ LET top == Head(stack)
     IN IF top.keys = <<>>
        THEN /\ stack' = Tail(stack)
             /\ UNCHANGED <<treeVisited, breakdown>>
        ELSE LET depName == Head(top.keys)
                 after == <<[top EXCEPT !.keys = Tail(@)]>> \o Tail(stack)
             IN IF SeenInTree(treeVisited, depName)
                THEN /\ stack' = after
                     /\ UNCHANGED <<treeVisited, breakdown>>
                ELSE /\ treeVisited' = treeVisited \cup {depName}
                     /\ \E depPath \in {DepPath(fs, top.packagePath, depName, Cwd)} :
                          IF existsSync(fs, depPath)
                          THEN /\ \E size \in {calculateJsSize(fs, depPath)} :
                                    breakdown' = IF size > 0
                                                 THEN Append(breakdown, [name |-> depName, size |-> size])
                                                 ELSE breakdown
                               /\ stack' = <<Frame(fs, depPath)>> \o after
                          ELSE /\ stack' = after
                               /\ UNCHANGED breakdown
  /\ UNCHANGED <<fs, target, options, measureVars, flattenVars, locateVars, pc, resolverVars, ownSize, sizeResult, error, exitCode>>

\* analyzeSizeMap after getDependencyTree returned, and the action's exit
FinishSizeMap ==
  /\ pc = "getDependencyTree"
  /\ stack = <<>>
  /\ LET all == <<[name |-> target, size |-> ownSize]>> \o SortBySize(breakdown)
         totalSize == SumSizes(all)
         nodeModulesSize == getNodeModulesSize(fs, Cwd)
     IN sizeResult' =
          [returned |-> TRUE, packageName |-> target, totalSize |-> totalSize,
           breakdown |-> all, nodeModulesSize |-> nodeModulesSize,
           percentOfNodeModules |->
             IF nodeModulesSize > 0 THEN <<totalSize * 100, nodeModulesSize>> ELSE <<0, 1>>]
  /\ exitCode' = 0
  /\ pc' = "exit"
  /\ UNCHANGED <<fs, target, options, measureVars, flattenVars, locateVars, resolverVars, ownSize, treeVisited, stack, breakdown, error>>

SizeNext == AnalyzeSizeMap \/ GetDependencyTree \/ FinishSizeMap

SizeSpec == SizeInit /\ [][SizeNext]_vars

\* The size map on the smaller graphs, with the loop of getDependencyTree
\* always running on: a synchronous loop of one process has its next
\* iteration, or its return, whenever there is one to take
LiveSizeFilesystems ==
  { MkSizeFs(G, TRUE, cl, "index", "index") :
      G \in { H \in SizeGraphs : Cardinality(H) <= MaxLiveSizeEdges }, cl \in Layouts }

LiveSizeInit ==
  /\ fs \in LiveSizeFilesystems
  /\ target \in Targets
  /\ options = [sizeMap |-> TRUE]
  /\ InitCommon

SizeFairSpec == LiveSizeInit /\ [][SizeNext]_vars /\ WF_vars(GetDependencyTree)

\* The size map where a directory cannot be listed: readdirSync of it throws
\* (the catch blocks of calculateJsSize and walkDir take it for empty) while
\* the entries below it are still found by their paths.  At most one of the
\* project's node_modules and the directories of modules t and b is so.
LockedDirs == { {}, {join(Cwd, <<NM>>)}, {ModuleDir("t")}, {ModuleDir("b")} }

Locked(f, unreadable) ==
  [manifests |-> f.manifests, files |-> f.files, unreadable |-> unreadable]

LockedSizeFilesystems ==
  { Locked(f, unreadable) : f \in LiveSizeFilesystems, unreadable \in LockedDirs }

LockedSizeInit ==
  /\ fs \in LockedSizeFilesystems
  /\ target \in Targets
  /\ options = [sizeMap |-> TRUE]
  /\ InitCommon

LockedSizeSpec == LockedSizeInit /\ [][SizeNext]_vars

\* The size functions on their own: findPackageSize and calculateJsSize are
\* applied, one after the other, to a directory of a drawn tree
TreeInit ==
  /\ fs \in TreeFilesystems
  /\ measuredDir \in TreeDirs
  /\ target \in Targets
  /\ options = [sizeMap |-> FALSE]
  /\ pc = "findPackageSize"
  /\ queue = <<>>
  /\ visited = {}
  /\ paths = <<>>
  /\ result = NoResult
  /\ error = ""
  /\ exitCode = -1
  /\ ownSize = 0
  /\ treeVisited = {}
  /\ stack = <<>>
  /\ breakdown = <<>>
  /\ sizeResult = NoSizeResult
  /\ packageSize = Undefined
  /\ jsSize = 0
  /\ givenPkg = NoPkg
  /\ flatDeps = <<>>
  /\ startDir = NoPath
  /\ located = NoPath

FindPackageSize ==
  /\ pc = "findPackageSize"
  /\ packageSize' = findPackageSize(fs, measuredDir)
  /\ pc' = "calculateJsSize"
  /\ UNCHANGED <<fs, target, options, flattenVars, locateVars, measuredDir, jsSize, resolverVars, sizeVars, error, exitCode>>

CalculateJsSize ==
  /\ pc = "calculateJsSize"
  /\ jsSize' = calculateJsSize(fs, measuredDir)
  /\ pc' = "measured"
  /\ UNCHANGED <<fs, target, options, flattenVars, locateVars, measuredDir, packageSize, resolverVars, sizeVars, error, exitCode>>

TreeNext == FindPackageSize \/ CalculateJsSize

TreeSpec == TreeInit /\ [][TreeNext]_vars

\* getAllDependencies on its own, applied to a manifest that lists each of
\* t, b and c in any of its four maps
GivenPkgs ==
  { Manifest("a", SeqOf(prod), SeqOf(dev), SeqOf(peer), SeqOf(opt)) :
      prod \in SUBSET {"t", "b", "c"}, dev \in SUBSET {"t", "b", "c"},
      peer \in SUBSET {"t", "b", "c"}, opt \in SUBSET {"t", "b", "c"} }

FlattenInit ==
  /\ givenPkg \in GivenPkgs
  /\ flatDeps = <<>>
  /\ fs = MkFs({}, {Install(RootPkg, "", "", TRUE)})
  /\ target \in Targets
  /\ options = [sizeMap |-> FALSE]
  /\ pc = "getAllDependencies"
  /\ queue = <<>>
  /\ visited = {}
  /\ paths = <<>>
  /\ result = NoResult
  /\ error = ""
  /\ exitCode = -1
  /\ ownSize = 0
  /\ treeVisited = {}
  /\ stack = <<>>
  /\ breakdown = <<>>
  /\ sizeResult = NoSizeResult
  /\ measuredDir = NoPath
  /\ packageSize = Undefined
  /\ jsSize = 0
  /\ startDir = NoPath
  /\ located = NoPath

GetAllDependencies ==
  /\ pc = "getAllDependencies"
  /\ flatDeps' = getAllDependencies(givenPkg)
  /\ pc' = "flattened"
  /\ UNCHANGED <<fs, target, options, givenPkg, measureVars, locateVars, resolverVars, sizeVars,
                 error, exitCode>>

FlattenSpec == FlattenInit /\ [][GetAllDependencies]_vars

\* findPackageInNodeModules on its own: a manifest of t lies at any of the
\* places of TPlaces, and the search starts in one of StartDirs
TPlaces ==
  { <<NM, "t", PkgJson>>,
    <<"w", NM, "t", PkgJson>>,
    join(Cwd, <<NM, "t", PkgJson>>),
    join(Cwd, <<NM, "a", NM, "t", PkgJson>>),
    <<"w", "t", PkgJson>>,
    join(Cwd, <<"t", PkgJson>>),
    join(Cwd, <<NM, "a", "t", PkgJson>>) }

StartDirs == { Cwd, ModuleDir("a"), <<"w">>, <<>> }

LocateFilesystems ==
  { MkFs({}, { Install(RootPkg, "", "", TRUE), Install(HoistedPath("a"), "a", "a", TRUE) }
             \cup { Install(q, "t", "t", TRUE) : q \in places }) :
      places \in SUBSET TPlaces }

LocateInit ==
  /\ fs \in LocateFilesystems
  /\ startDir \in StartDirs
  /\ located = NoPath
  /\ target \in Targets
  /\ options = [sizeMap |-> FALSE]
  /\ pc = "findPackageInNodeModules"
  /\ queue = <<>>
  /\ visited = {}
  /\ paths = <<>>
  /\ result = NoResult
  /\ error = ""
  /\ exitCode = -1
  /\ ownSize = 0
  /\ treeVisited = {}
  /\ stack = <<>>
  /\ breakdown = <<>>
  /\ sizeResult = NoSizeResult
  /\ measuredDir = NoPath
  /\ packageSize = Undefined
  /\ jsSize = 0
  /\ givenPkg = NoPkg
  /\ flatDeps = <<>>

FindPackageInNodeModules ==
  /\ pc = "findPackageInNodeModules"
  /\ located' = findPackageInNodeModules(fs, target, startDir)
  /\ pc' = "located"
  /\ UNCHANGED <<fs, target, options, startDir, measureVars, flattenVars, resolverVars,
                 sizeVars, error, exitCode>>

LocateSpec == LocateInit /\ [][FindPackageInNodeModules]_vars

-----------------------------------------------------------------------------
(* The manifest graph, as the claims speak of it *)

\* the categories whose own map of pkg lists name n
RawCats(pkg, n) ==
  (IF n \in SeqSet(pkg.dependencies) THEN {"prod"} ELSE {})
  \cup (IF n \in SeqSet(pkg.devDependencies) THEN {"dev"} ELSE {})
  \cup (IF n \in SeqSet(pkg.peerDependencies) THEN {"peer"} ELSE {})
  \cup (IF n \in SeqSet(pkg.optionalDependencies) THEN {"optional"} ELSE {})

\* every name pkg declares, in any map
Declared(pkg) ==
  SeqSet(pkg.dependencies) \cup SeqSet(pkg.devDependencies)
  \cup SeqSet(pkg.peerDependencies) \cup SeqSet(pkg.optionalDependencies)

\* the category the flattened map gives n: that of the last map listing it
FlatCat(pkg, n) ==
  IF n \in SeqSet(pkg.optionalDependencies) THEN "optional"
  ELSE IF n \in SeqSet(pkg.peerDependencies) THEN "peer"
  ELSE IF n \in SeqSet(pkg.devDependencies) THEN "dev"
  ELSE "prod"

\* A node of the graph is a module name with the manifest it resolves to;
\* the project is the node of its own manifest, named by the manifest's name.
Node(name, path) == [name |-> name, path |-> path]

RootNode(f) == Node(readPackageJson(f, RootPkg).name, RootPkg)

\* the nodes one declared dependency away from node n, names in avoid left out
Succ(f, avoid, n) ==
  LET pkg == readPackageJson(f, n.path)
  IN { m \in { Node(d, findPackageInNodeModules(f, d, dirname(n.path))) :
                 d \in Declared(pkg) \ avoid } : m.path # NoPath }

\* the nodes at most k edges from the project
RECURSIVE Within(_, _, _)
Within(f, avoid, k) ==
  IF ~existsSync(f, RootPkg) THEN {}
  ELSE IF k = 0 THEN {RootNode(f)}
  ELSE LET prev == Within(f, avoid, k - 1)
       IN prev \cup UNION { Succ(f, avoid, n) : n \in prev }

RECURSIVE Closure(_, _, _)
Closure(f, avoid, S) ==
  LET more == S \cup UNION { Succ(f, avoid, n) : n \in S }
  IN IF more = S THEN S ELSE Closure(f, avoid, more)

\* every node reachable from the project
Reachable(f, avoid) ==
  IF ~existsSync(f, RootPkg) THEN {} ELSE Closure(f, avoid, {RootNode(f)})

\* the nodes the traversal for target t expands: reached through modules other
\* than t, by a chain of at most maxDepth names (the project's name counts)
DepthLimit(f) == IF RootNode(f).name = "" THEN maxDepth + 1 ELSE maxDepth

Expanded(f, t) ==
  { n \in Within(f, {t}, DepthLimit(f)) : readPackageJson(f, n.path).ok }

HasChain(ps, t, c) ==
  \E i \in 1..Len(ps) :
    Len(ps[i].chain) > 0 /\ Last(ps[i].chain) = t /\ ps[i].type = c

\* findDependencyPaths has returned and analyzePackage has not yet filtered
Returned == pc = "dedup"

-----------------------------------------------------------------------------
(* C1 *)

\* C1 as claimed: every manifest of the graph that lists the target in its
\* category-C map yields a returned chain that ends in the target with type C.
C1_AsClaimed ==
  Returned =>
    \A n \in Reachable(fs, {}) :
      \A c \in RawCats(readPackageJson(fs, n.path), target) :
        HasChain(paths, target, c)

\* C1 amended: every manifest the traversal expands (reached through modules
\* other than the target, within maxDepth) whose flattened dependency map
\* lists the target yields a returned chain that ends in the target and has
\* the flattened category of that entry (the last of prod, dev, peer,
\* optional whose map lists the target).
C1_FlattenedEdgeHasChain ==
  Returned =>
    \A n \in Expanded(fs, target) :
      LET pkg == readPackageJson(fs, n.path)
      IN target \in Declared(pkg) => HasChain(paths, target, FlatCat(pkg, target))

\* a manifest two edges deep lists the target in two maps, and its chain is back
C1_Witness ==
  /\ Returned
  /\ \E n \in Expanded(fs, target) :
       /\ n # RootNode(fs)
       /\ Cardinality(RawCats(readPackageJson(fs, n.path), target)) >= 2
  /\ Len(paths) >= 2

-----------------------------------------------------------------------------
(* C2 *)

\* the project's name as a chain prefix: nothing when the manifest has none
RootPrefix(f) == IF RootNode(f).name = "" THEN <<>> ELSE <<RootNode(f).name>>

\* the simple walks project -> m1 -> ... -> mk of the graph, k <= n, through
\* modules other than those in avoid; a walk is the sequence of its nodes
RECURSIVE Walks(_, _, _)
Walks(f, avoid, n) ==
  IF ~existsSync(f, RootPkg) THEN {}
  ELSE IF n = 0 THEN {<<RootNode(f)>>}
  ELSE LET prev == Walks(f, avoid, n - 1)
       IN prev \cup UNION { { Append(w, m) : m \in Succ(f, avoid, Last(w)) \ SeqSet(w) } :
                       w \in { v \in prev : Len(v) = n } }

\* m1, ..., mk of a walk
WalkNames(w) == [i \in 1..(Len(w) - 1) |-> w[i + 1].name]

Chains(ps) == { ps[i].chain : i \in 1..Len(ps) }

\* C2 as claimed: every path project -> m1 -> ... -> mk -> T of the graph (here:
\* every simple one through modules other than T, k <= MaxWalk) has its chain
\* m1, ..., mk, T returned (after the project's own name, where it has one).
C2_AsClaimed ==
  Returned =>
    \A w \in Walks(fs, {target}, MaxWalk) :
      target \in Declared(readPackageJson(fs, Last(w).path)) =>
        (RootPrefix(fs) \o WalkNames(w) \o <<target>>) \in Chains(paths)

\* the node the names lead to from node n, each a declared dependency the
\* locator finds; the node of NoPath when they lead nowhere
RECURSIVE Follow(_, _, _)
Follow(f, n, names) ==
  IF Len(names) = 0 THEN n
  ELSE LET d == Head(names)
           q == findPackageInNodeModules(f, d, dirname(n.path))
       IN IF d \in Declared(readPackageJson(f, n.path)) /\ q # NoPath
          THEN Follow(f, Node(d, q), Tail(names))
          ELSE Node("", NoPath)

\* the least k with node n at most k edges from the project (n is reachable)
RECURSIVE Distance(_, _, _, _)
Distance(f, avoid, n, k) ==
  IF n \in Within(f, avoid, k) THEN k ELSE Distance(f, avoid, n, k + 1)

\* the returned paths that node n pushed
PathsOf(ps, f, n) ==
  { i \in 1..Len(ps) :
      /\ ps[i].packageJsonPath = n.path
      /\ Len(ps[i].chain) >= 1
      /\ (IF n.name = "" THEN Len(ps[i].chain) = 1
          ELSE Len(ps[i].chain) >= 2 /\ ps[i].chain[Len(ps[i].chain) - 1] = n.name) }

\* C2 amended: the resolver returns one chain per expanded node, not one per
\* path.  Every (module name, manifest) node that declares the target and is
\* reached through located dependencies other than the target within maxDepth
\* has exactly one returned chain; that chain is (after the project's name) a
\* shortest path of the graph from the project to the node, followed by the
\* target; and nothing else is returned.  So when two parents depend on the
\* same intermediate module, resolved to the same manifest, a chain through
\* only one of them is returned.
C2_OneShortestChainPerNode ==
  Returned =>
    LET emitters == { n \in Expanded(fs, target) :
                        target \in Declared(readPackageJson(fs, n.path)) }
        pre == RootPrefix(fs)
    IN /\ Len(paths) = Cardinality(emitters)
       /\ \A n \in emitters :
            /\ Cardinality(PathsOf(paths, fs, n)) = 1
            /\ LET p == paths[CHOOSE i \in PathsOf(paths, fs, n) : TRUE]
                   body == SubSeq(p.chain, Len(pre) + 1, Len(p.chain) - 1)
               IN /\ SubSeq(p.chain, 1, Len(pre)) = pre
                  /\ Last(p.chain) = target
                  /\ Follow(fs, RootNode(fs), body) = n
                  /\ Len(body) = Distance(fs, {target}, n, 0)

\* a diamond: an expanded node that declares the target has two expanded
\* parents, and the traversal has returned
C2_Witness ==
  /\ Returned
  /\ \E n \in Expanded(fs, target) :
       /\ target \in Declared(readPackageJson(fs, n.path))
       /\ \E a \in Expanded(fs, target), b \in Expanded(fs, target) :
            /\ a # b /\ a # RootNode(fs) /\ b # RootNode(fs)
            /\ n \in Succ(fs, {target}, a) /\ n \in Succ(fs, {target}, b)
            /\ n \notin Succ(fs, {target}, RootNode(fs))
            /\ a \notin Succ(fs, {target}, b) /\ b \notin Succ(fs, {target}, a)
       /\ Cardinality(PathsOf(paths, fs, n)) = 1

-----------------------------------------------------------------------------
(* C3 *)

\* C3: every chain pushed to paths, and every chain returned, is non-empty
\* and ends in the target name.
C3_ChainsEndInTarget ==
  /\ \A i \in 1..Len(paths) :
       Len(paths[i].chain) > 0 /\ Last(paths[i].chain) = target
  /\ \A i \in 1..Len(result.paths) :
       Len(result.paths[i].chain) > 0 /\ Last(result.paths[i].chain) = target

\* three chains of three different lengths came back
C3_Witness ==
  /\ pc = "exit"
  /\ result.returned
  /\ \E i, j, k \in 1..Len(result.paths) :
       /\ Len(result.paths[i].chain) = 1
       /\ Len(result.paths[j].chain) = 2
       /\ Len(result.paths[k].chain) = 3

-----------------------------------------------------------------------------
(* C6 *)

\* the target has a manifest in the node_modules of the working directory or
\* of one of its ancestors
TargetInstalled(f, t) ==
  \E k \in 0..Len(Cwd) : IsFile(f, join(SubSeq(Cwd, 1, k), <<NM, t, PkgJson>>))

\* the 'not found' Error was thrown and nothing else has happened
FailedNotFound ==
  /\ error = NotFoundMessage(target)
  /\ exitCode = 1
  /\ pc = "exit"
  /\ queue = <<>> /\ visited = {} /\ paths = <<>>
  /\ result = NoResult

\* C6: when the target's manifest cannot be located, the run ends with the
\* 'not found' error and exit code 1 before the traversal has started and with
\* no result; when it can be located, no error is ever raised.
C6_NotFoundBeforeResolution ==
  /\ (~TargetInstalled(fs, target) /\ pc # "cli") => FailedNotFound
  /\ TargetInstalled(fs, target) => (error = "" /\ exitCode # 1)
  /\ error # "" => FailedNotFound

\* the project's manifest lists the target, a dependency lists it too, yet it
\* is not installed: the run has failed
C6_Witness ==
  /\ FailedNotFound
  /\ target \in Declared(readPackageJson(fs, RootPkg))
  /\ \E n \in Succ(fs, {target}, RootNode(fs)) :
       target \in Declared(readPackageJson(fs, n.path))

-----------------------------------------------------------------------------
(* C8 *)

Finished == pc = "exit" /\ result.returned

\* C8 as claimed: when the project manifest declares the target and at least
\* one more, longer chain is returned, the suggestions hold the redundancy
\* suggestion.
C8_AsClaimed ==
  ( /\ Finished
    /\ target \in Declared(readPackageJson(fs, RootPkg))
    /\ Len(result.paths) >= 2 )
  => RedundantSuggestion \in SeqSet(result.suggestions)

-----------------------------------------------------------------------------
(* C9 *)

\* the project manifest declares a, a's manifest declares the target, and
\* nothing else is declared by either
TwoStepScenario(f, t) ==
  LET root == readPackageJson(f, RootPkg)
      a == readPackageJson(f, HoistedPath("a"))
  IN /\ root.ok /\ a.ok
     /\ getAllDependencies(root) = <<[name |-> "a", type |-> "prod"]>>
     /\ getAllDependencies(a) = <<[name |-> t, type |-> "prod"]>>

\* what C9 says of the chains ps, the project's name taken to be pre
RootAdjacentChains(ps, f, t, pre) ==
  LET root == readPackageJson(f, RootPkg)
  IN /\ \A i \in 1..Len(ps) :
          /\ Len(ps[i].chain) > Len(pre)
          /\ SubSeq(ps[i].chain, 1, Len(pre)) = pre
          /\ ps[i].chain[Len(pre) + 1] \in Declared(root)
     /\ t \in Declared(root) => (pre \o <<t>>) \in Chains(ps)
     /\ TwoStepScenario(f, t) =>
          ps = <<[chain |-> pre \o <<"a", t>>, type |-> "prod",
                  packageJsonPath |-> HoistedPath("a")]>>

\* C9 as claimed: no chain holds a name of the project; every chain starts at
\* a module the project manifest declares, a direct target gives [T], and the
\* two-step scenario gives exactly [a, T] of type prod.
C9_AsClaimed == Returned => RootAdjacentChains(paths, fs, target, <<>>)

\* C9 amended: the project contributes no name to any chain when its manifest
\* has no name; when it has one, every chain starts with that name.  After it,
\* every chain starts at a module the project manifest declares, a direct
\* target gives [T] (after the name), and the two-step scenario gives exactly
\* [a, T] (after the name) of type prod.
C9_RootNameOnlyWhenNamed == Returned => RootAdjacentChains(paths, fs, target, RootPrefix(fs))

\* the two-step scenario in a project without a name: [a, T] came back
C9_Witness ==
  /\ Returned
  /\ RootNode(fs).name = ""
  /\ TwoStepScenario(fs, target)
  /\ Chains(paths) = {<<"a", target>>}

-----------------------------------------------------------------------------
(* C4 *)

\* C4: every run of findDependencyPaths comes to its end: once the while loop
\* is entered, the queue eventually is empty and the list is returned, on
\* every generated graph, cyclic ones included.
C4_Terminates == (pc = "while") ~> (pc = "dedup" /\ queue = <<>>)

\* two modules that depend on each other, neither the target, were both
\* expanded, and the traversal has returned
C4_Witness ==
  /\ Returned
  /\ queue = <<>>
  /\ \E a \in Expanded(fs, target), b \in Expanded(fs, target) :
       /\ a # b /\ a # RootNode(fs) /\ b # RootNode(fs)
       /\ b \in Succ(fs, {target}, a) /\ a \in Succ(fs, {target}, b)
       /\ VisitKey(a.name, a.path) \in visited
       /\ VisitKey(b.name, b.path) \in visited

-----------------------------------------------------------------------------
(* C7 *)

\* the head of the queue has a manifest that cannot be read
HeadUnreadable ==
  /\ pc = "while"
  /\ Len(queue) > 0
  /\ ~readPackageJson(fs, Head(queue).packageJsonPath).ok

\* the manifests a malformed manifest of module name could have held instead
RepairManifests(name) ==
  { Manifest(name, SeqOf(D), <<>>, <<>>, <<>>) : D \in SUBSET (Names \ {name}) }

\* chain (of a path returned on f) leads through the manifest at x
PassesThrough(f, chain, x) ==
  LET pre == RootPrefix(f)
      body == SubSeq(chain, Len(pre) + 1, Len(chain) - 1)
  IN \E k \in 0..Len(body) : Follow(f, RootNode(f), SubSeq(body, 1, k)).path = x

\* every chain the traversal would return, were the unreadable manifests
\* readable, that does not lead through them is among ps
KeepsOtherChains(f, t, ps) ==
  \A x \in { y \in DOMAIN f.manifests : ~f.manifests[y].ok } :
    \A m \in RepairManifests(x[Len(x) - 1]) :
      LET g == [f EXCEPT !.manifests[x] = m]
          good == findDependencyPaths(g, t)
      IN \A i \in 1..Len(good) :
           PassesThrough(g, good[i].chain, x) \/ good[i] \in SeqSet(ps)

\* C7: an item whose manifest is missing, unreadable or malformed is dropped:
\* no chain is pushed, nothing is queued or marked visited, no error is
\* raised, and the loop goes on with the rest of the queue; every chain that
\* does not lead through such a manifest is still returned; and with the
\* project manifest missing the result is the empty list, not an error.
C7_AbsentManifestIsSkipped ==
  /\ [][HeadUnreadable =>
          /\ paths' = paths
          /\ queue' = Tail(queue)
          /\ visited' = visited
          /\ error' = "" /\ exitCode' = -1
          /\ pc' = IF Len(queue) > 1 THEN "while" ELSE "dedup"]_vars
  /\ [](Returned => KeepsOtherChains(fs, target, paths))
  /\ []((~existsSync(fs, RootPkg) /\ pc \in {"dedup", "exit"} /\ error = "")
          => paths = <<>> /\ (pc = "exit" => result.returned /\ result.paths = <<>>))

\* a dependency of the project has a malformed manifest, and chains through
\* other modules came back
C7_Witness ==
  /\ Returned
  /\ \E n \in Succ(fs, {target}, RootNode(fs)) :
       /\ n.path \in DOMAIN fs.manifests
       /\ ~fs.manifests[n.path].ok
  /\ Len(paths) >= 2

-----------------------------------------------------------------------------
(* C10 *)

SameKey(p, q) == p.type = q.type /\ p.chain = q.chain

\* the elements of ps that no earlier element equals in type and chain, in
\* the order of ps
RECURSIVE FirstOccurrences(_, _)
FirstOccurrences(ps, n) ==
  IF n = 0 THEN <<>>
  ELSE IF \E j \in 1..(n - 1) : SameKey(ps[j], ps[n])
       THEN FirstOccurrences(ps, n - 1)
       ELSE Append(FirstOccurrences(ps, n - 1), ps[n])

\* C10: the filtered list holds exactly the first occurrence of each (type,
\* chain) pair of the returned list, in the returned order; no two of its
\* elements agree in type and chain; filtering it again changes nothing.
C10_DedupKeepsFirstOccurrences ==
  Finished =>
    /\ result.paths = FirstOccurrences(paths, Len(paths))
    /\ \A i, j \in 1..Len(result.paths) :
         SameKey(result.paths[i], result.paths[j]) => i = j
    /\ Dedup(result.paths) = result.paths

\* a list of three paths, the third a repeat of the first from another
\* manifest, was filtered down to two
C10_Witness ==
  /\ Finished
  /\ Len(paths) = 3
  /\ SameKey(paths[1], paths[3])
  /\ paths[1] # paths[3]
  /\ ~SameKey(paths[1], paths[2])
  /\ result.paths = <<paths[1], paths[2]>>

-----------------------------------------------------------------------------
(* C5 *)

SizeFinished == pc = "exit" /\ sizeResult.returned

\* the directories of the modules that the manifest in directory d lists in
\* `dependencies` and that are installed where the walk looks for them: in
\* d's own node_modules or in the project's
InstalledDeps(f, d) ==
  LET pkg == readPackageJson(f, Append(d, PkgJson))
      names == IF pkg.ok THEN SeqSet(pkg.dependencies) ELSE {}
  IN { join(d, <<NM, n>>) : n \in { m \in names : existsSync(f, join(d, <<NM, m>>)) } }
     \cup { ModuleDir(n) : n \in { m \in names : /\ ~existsSync(f, join(d, <<NM, m>>))
                                                /\ existsSync(f, ModuleDir(m)) } }

RECURSIVE DirClosure(_, _)
DirClosure(f, S) ==
  LET more == S \cup UNION { InstalledDeps(f, d) : d \in S }
  IN IF more = S THEN S ELSE DirClosure(f, more)

\* the installed copies of module n that t reaches through `dependencies`
ReachableCopies(f, t, n) ==
  { d \in DirClosure(f, {ModuleDir(t)}) : d[Len(d)] = n }

\* the installed modules other than t that t reaches through `dependencies`
ReachableInstalled(f, t) ==
  { n \in Names \ {t} : ReachableCopies(f, t, n) # {} }

\* what the entries named n add to the total
Contribution(items, n) ==
  SumSizes(SelectSeq(items, LAMBDA e : e.name = n))

\* C5, as claimed: the total is the target's own filtered size plus, for every
\* installed module name the target reaches through declared dependencies,
\* the filtered size of that module, once; no name is twice in the breakdown.
C5_AsClaimed ==
  SizeFinished =>
    LET items == sizeResult.breakdown
        deps == Tail(items)
    IN /\ items[1] = [name |-> target, size |-> calculateJsSize(fs, ModuleDir(target))]
       /\ \A i, j \in 1..Len(items) : items[i].name = items[j].name => i = j
       /\ \A i \in 1..Len(deps) : deps[i].name \in ReachableInstalled(fs, target)
       /\ \A n \in ReachableInstalled(fs, target) :
            \E d \in ReachableCopies(fs, target, n) : Contribution(deps, n) = calculateJsSize(fs, d)
       /\ sizeResult.totalSize = SumSizes(items)

-----------------------------------------------------------------------------
(* C11 *)

\* C11: in the breakdown analyzeSizeMap returns, the first entry is the
\* target with its own filtered size, whatever that size is, and the entries
\* after it are in non-increasing order of size.
C11_TargetFirstThenDescending ==
  SizeFinished =>
    LET items == sizeResult.breakdown
    IN /\ Len(items) >= 1
       /\ items[1] = [name |-> target, size |-> calculateJsSize(fs, ModuleDir(target))]
       /\ \A i \in 2..(Len(items) - 1) : items[i].size >= items[i + 1].size

\* the target weighs nothing, and two dependencies were pushed smaller first
C11_Witness ==
  /\ SizeFinished
  /\ sizeResult.breakdown[1].size = 0
  /\ Len(breakdown) >= 2
  /\ breakdown[1].size < breakdown[2].size
  /\ sizeResult.breakdown[2].size > sizeResult.breakdown[3].size

-----------------------------------------------------------------------------
(* C12 *)

\* the directories strictly between d and the file q
DirsBetween(d, q) == { SubSeq(q, 1, k) : k \in (Len(d) + 1)..(Len(q) - 1) }

\* the regular files below d that a walk from d can get at: the file can be
\* read, and so can every directory on the way to it
FilesBelow(f, d) ==
  { q \in DOMAIN f.files :
      /\ Len(q) > Len(d) /\ IsPrefix(d, q)
      /\ q \notin Unreadable(f)
      /\ DirsBetween(d, q) \cap Unreadable(f) = {} }

RECURSIVE SumOfFiles(_, _)
SumOfFiles(f, S) ==
  IF S = {} THEN 0
  ELSE LET q == CHOOSE x \in S : TRUE IN f.files[q] + SumOfFiles(f, S \ {q})

\* dir is a directory that can be listed
Listable(f, d) == IsDirectory(f, d) /\ d \notin Unreadable(f)

\* C12: for a directory that can be listed, findPackageSize returns the sum
\* of the sizes of all regular files of its subtree, whatever their names and
\* however deep; 0 when the directory is empty, N when it holds one N-byte
\* file; an entry that cannot be read adds 0 and the walk goes on.
C12_PackageSizeIsSumOfAllFiles ==
  (pc \in {"calculateJsSize", "measured"} /\ Listable(fs, measuredDir)) =>
    /\ packageSize = Number(SumOfFiles(fs, FilesBelow(fs, measuredDir)))
    /\ readdirSync(fs, measuredDir) = {} => packageSize = Number(0)
    /\ \A q \in DOMAIN fs.files :
         (readdirSync(fs, measuredDir) = {q[Len(q)]} /\ dirname(q) = measuredDir /\ q \notin Unreadable(fs))
            => packageSize = Number(fs.files[q])

\* the tree holds a file beside a file that cannot be read, a file in a
\* subdirectory and one in a nested node_modules: 8 + 128 bytes are counted
C12_Witness ==
  /\ pc = "measured"
  /\ measuredDir = TreeBase
  /\ Append(TreeBase, "index.js") \in Unreadable(fs) \cap DOMAIN fs.files
  /\ packageSize = Number(136)

\* an empty directory was measured as 0, a directory with one file as that file
C12_WitnessSmall ==
  /\ pc = "measured"
  /\ \/ measuredDir \in EmptyDirs(fs) /\ packageSize = Number(0)
     \/ measuredDir = Append(TreeBase, "test") /\ packageSize = Number(16)

-----------------------------------------------------------------------------
(* C13 *)

Measured == pc = "measured"

\* name has a source-code extension
SourceName(name) == toLowerCase(extname(name)) \in {".js", ".mjs", ".cjs"}

\* name is one of the test, documentation or type-declaration directories,
\* ends in .d.ts or starts with a dot
ExcludedName(name) ==
  \/ toLowerCase(name) \in {"test", "tests", "__tests__", "docs", "doc", "types", "@types", "typings"}
  \/ EntryInfo(name).dts
  \/ EntryInfo(name).dot

\* the names on the way from d down to q, q's own name included
NamesBelow(d, q) == { q[k] : k \in (Len(d) + 1)..Len(q) }

\* the source files below d with no excluded name on the way
SourceFilesBelow(f, d) ==
  { q \in FilesBelow(f, d) :
      SourceName(q[Len(q)]) /\ \A n \in NamesBelow(d, q) : ~ExcludedName(n) }

\* C13, as claimed: calculateJsSize(dir) is the sum of the sizes of the files
\* under dir that have a source-code extension and no excluded name on their
\* path below dir.
C13_AsClaimed ==
  (Measured /\ Listable(fs, measuredDir)) =>
    jsSize = SumOfFiles(fs, SourceFilesBelow(fs, measuredDir))

\* C13: calculateJsSize(dir) is the sum of the sizes of the files under dir
\* that have a source-code extension, no excluded name on their path below
\* dir, and no node_modules directory on that path either; one 2048-byte
\* source file beside one 100-byte documentation file gives 2048.
C13_SumOfSourceFilesOutsideNodeModules ==
  /\ (Measured /\ Listable(fs, measuredDir)) =>
       jsSize = SumOfFiles(fs, { q \in SourceFilesBelow(fs, measuredDir) :
                                   NM \notin NamesBelow(measuredDir, q) })
  /\ (Measured /\ fs = ScenarioTree /\ measuredDir = TreeBase) => jsSize = 2048

\* of an upper-case source file, a file in a test directory and a file in a
\* nested node_modules, only the first was counted
C13_Witness ==
  /\ Measured
  /\ measuredDir = TreeBase
  /\ { join(TreeBase, <<"Main.CJS">>), join(TreeBase, <<"test", "spec.js">>),
       join(TreeBase, <<NM, "c", "index.js">>) } \subseteq DOMAIN fs.files
  /\ jsSize = 64

\* the 2048-byte and 100-byte scenario was measured
C13_WitnessScenario == Measured /\ fs = ScenarioTree /\ measuredDir = TreeBase /\ jsSize = 2048

-----------------------------------------------------------------------------
(* C14 *)

HasType(ps, ty) == \E i \in 1..Len(ps) : ps[i].type = ty

\* C14: for a non-empty filtered list the suggestions hold the
\* devDependencies suggestion exactly when some chain has type dev, and the
\* peer-dependency suggestion exactly when some chain has type peer; for an
\* empty list the one suggestion is that the package is not in the
\* dependency tree.
C14_SuggestionsFollowTypes ==
  Finished =>
    LET given == SeqSet(result.suggestions)
    IN IF result.paths = <<>>
       THEN result.suggestions = <<NotInTree(target)>>
       ELSE /\ DevSuggestion \in given <=> HasType(result.paths, "dev")
            /\ PeerSuggestion \in given <=> HasType(result.paths, "peer")
            /\ NotInTree(target) \notin given

\* a peer chain and a production chain, no development chain: the peer
\* suggestion is given, the devDependencies suggestion is not
C14_Witness ==
  /\ Finished
  /\ HasType(result.paths, "peer")
  /\ HasType(result.paths, "prod")
  /\ ~HasType(result.paths, "dev")
  /\ PeerSuggestion \in SeqSet(result.suggestions)
  /\ DevSuggestion \notin SeqSet(result.suggestions)

-----------------------------------------------------------------------------
(* C15 *)

\* the item a dequeue step takes, with the name it goes by
HeadName ==
  IF Head(queue).packageName # "" THEN Head(queue).packageName
  ELSE readPackageJson(fs, Head(queue).packageJsonPath).name

\* the (name, manifest path) pair of the item a dequeue step takes, as the
\* string the traversal keeps of it
HeadKey == HeadName \o ":/" \o JoinStr(Head(queue).packageJsonPath, "/")

\* the next dequeue step takes an item that has been expanded before
HeadSeenBefore ==
  /\ pc = "while"
  /\ Len(queue) > 0
  /\ Len(Head(queue).chain) <= maxDepth
  /\ readPackageJson(fs, Head(queue).packageJsonPath).ok
  /\ HeadKey \in visited

\* C15: within one call no (name, manifest path) pair is expanded twice: a
\* step that pushes a chain or queues an item takes a pair that is not yet in
\* the visited set and puts it there, the visited set never loses a pair, and
\* a step that takes a pair already in the set pushes and queues nothing.
C15_EachPairExpandedOnce ==
  [][ (pc = "while" /\ Len(queue) > 0) =>
        /\ visited \subseteq visited'
        /\ (paths' # paths \/ queue' # Tail(queue) \/ visited' # visited)
             => (HeadKey \notin visited /\ visited' = visited \cup {HeadKey})
        /\ HeadSeenBefore => (paths' = paths /\ queue' = Tail(queue) /\ visited' = visited)
    ]_vars

\* an item is at the head of the queue whose pair was expanded before, while
\* chains have already been pushed
C15_Witness ==
  /\ HeadSeenBefore
  /\ Len(paths) > 0

-----------------------------------------------------------------------------
(* C16 *)

\* C16: the flattened map gives every name the manifest declares exactly one
\* category, that of the last of the maps production, development, peer,
\* optional that lists it, and holds no name the manifest does not declare.
C16_OneCategoryLastMapWins ==
  pc = "flattened" =>
    /\ \A i, j \in 1..Len(flatDeps) : flatDeps[i].name = flatDeps[j].name => i = j
    /\ { flatDeps[i].name : i \in 1..Len(flatDeps) } = Declared(givenPkg)
    /\ \A i \in 1..Len(flatDeps) :
         /\ flatDeps[i].type \in RawCats(givenPkg, flatDeps[i].name)
         /\ flatDeps[i].type = FlatCat(givenPkg, flatDeps[i].name)

\* t is listed in all four maps, b in the first two, c in none
C16_Witness ==
  /\ pc = "flattened"
  /\ Cardinality(RawCats(givenPkg, "t")) = 4
  /\ RawCats(givenPkg, "b") = {"prod", "dev"}
  /\ RawCats(givenPkg, "c") = {}
  /\ SeqSet(flatDeps) = { [name |-> "t", type |-> "optional"], [name |-> "b", type |-> "dev"] }

-----------------------------------------------------------------------------
(* C17 *)

\* d and the directories above it, the root <<>> last
Ancestors(d) == { SubSeq(d, 1, k) : k \in 0..Len(d) }

InstalledAt(f, name, d) == existsSync(f, join(d, <<NM, name, PkgJson>>))

\* the directories, among d and those above it, in whose node_modules the
\* module's manifest lies
Holders(f, name, d) == { x \in Ancestors(d) : InstalledAt(f, name, x) }

\* C17, as claimed: the result is the manifest in the node_modules of the
\* nearest directory, among startDir and the directories above it, that
\* holds one; it is absent exactly when there is no such directory; and a
\* returned path lies in the node_modules of startDir or of a directory
\* above it.
C17_AsClaimed ==
  pc = "located" =>
    LET holders == Holders(fs, target, startDir)
    IN /\ located = NoPath <=> holders = {}
       /\ located # NoPath =>
            \E x \in holders :
              /\ located = join(x, <<NM, target, PkgJson>>)
              /\ \A y \in holders : Len(y) <= Len(x)

-----------------------------------------------------------------------------
(* C18 *)

\* the next dequeue step takes an item with more than maxDepth names in its chain
HeadTooDeep ==
  /\ pc = "while"
  /\ Len(queue) > 0
  /\ Len(Head(queue).chain) > maxDepth

\* C18: an item with more than maxDepth names in its chain is dropped: no
\* chain is pushed, nothing is queued or marked visited, no error is raised;
\* and no returned chain has more than maxDepth + 2 names.
C18_DeepItemsDropped ==
  /\ [][HeadTooDeep =>
          /\ paths' = paths
          /\ queue' = Tail(queue)
          /\ visited' = visited
          /\ error' = "" /\ exitCode' = -1]_vars
  /\ [](\A i \in 1..Len(paths) : Len(paths[i].chain) <= maxDepth + 2)
  /\ [](pc \in {"while", "dedup"} => error = "")

\* the twelfth module of a chain of twelve lists the target and was reached,
\* but its item was dropped: a chain of maxDepth + 2 names through the
\* eleventh came back, none through the twelfth
C18_Witness ==
  /\ Returned
  /\ HoistedPath(ChainName(12)) \in DOMAIN fs.manifests
  /\ "t" \in Declared(readPackageJson(fs, HoistedPath(ChainName(12))))
  /\ readPackageJson(fs, RootPkg).name = ""
  /\ \E i \in 1..Len(paths) : Len(paths[i].chain) = maxDepth + 2
  /\ \A i \in 1..Len(paths) : ChainName(12) \notin SeqSet(paths[i].chain)

-----------------------------------------------------------------------------
(* C19 *)

\* In the file systems of the size map every source file has its own power
\* of two as size, so the size of an entry tells which files were summed.
SummedFiles(f, size) ==
  { q \in DOMAIN f.files :
      /\ f.files[q] \in { 2^k : k \in 0..11 }
      /\ (size \div f.files[q]) % 2 = 1 }

\* the directories of module name: straight in the project's node_modules or
\* nested in another module's
DirsOf(f, name) ==
  { d \in UNION { { SubSeq(q, 1, k) : k \in 2..(Len(q) - 1) } : q \in AllFiles(f) } :
      d[Len(d)] = name /\ d[Len(d) - 1] = NM }

\* C19: in a result of analyzeSizeMap the files summed for one breakdown
\* entry all lie in one directory of that module and in no node_modules
\* directory below it, and no file is summed for two entries, also when a
\* module is installed inside its parent's own directory.
C19_EntriesShareNoFile ==
  SizeFinished =>
    LET items == sizeResult.breakdown
    IN /\ \A i \in 1..Len(items) :
            /\ items[i].size = SumOfFiles(fs, SummedFiles(fs, items[i].size))
            /\ \E d \in DirsOf(fs, items[i].name) :
                 \A q \in SummedFiles(fs, items[i].size) :
                   /\ IsPrefix(d, q)
                   /\ NM \notin NamesBelow(d, q)
       /\ \A i, j \in 1..Len(items) :
            i # j => SummedFiles(fs, items[i].size) \cap SummedFiles(fs, items[j].size) = {}

\* c is installed inside b's directory only, and both have their entry: b's
\* is its own index.js, c's the nested one
C19_Witness ==
  /\ SizeFinished
  /\ ~existsSync(fs, ModuleDir("c"))
  /\ [name |-> "b", size |-> 4] \in SeqSet(sizeResult.breakdown)
  /\ [name |-> "c", size |-> 16] \in SeqSet(sizeResult.breakdown)

-----------------------------------------------------------------------------
(* C20 *)

\* the module a call of getDependencyTree in progress is walking
FrameName(frame) == frame.packagePath[Len(frame.packagePath)]

\* C20: the walk of getDependencyTree comes to its end (no call of it is left
\* in progress) on every graph, cyclic ones included; a step adds at most one name to the visited set, and only a
\* name that is not in it; a module is entered only in the step that adds its
\* name, so at most once; and the target, in the set from the start, is never
\* entered as a dependency nor listed as one.
C20_TreeWalkTerminates ==
  /\ (pc = "getDependencyTree") ~> (stack = <<>>)
  /\ [][pc = "getDependencyTree" =>
          /\ treeVisited \subseteq treeVisited'
          /\ Cardinality(treeVisited' \ treeVisited) <= 1
          /\ Len(stack') > Len(stack) =>
               /\ Len(stack') = Len(stack) + 1
               /\ FrameName(Head(stack')) \notin treeVisited
               /\ treeVisited' = treeVisited \cup {FrameName(Head(stack'))}]_vars
  /\ [](pc = "getDependencyTree" =>
          /\ target \in treeVisited
          /\ \A k \in 1..(Len(stack) - 1) : FrameName(stack[k]) # target
          /\ \A i \in 1..Len(breakdown) : breakdown[i].name # target)

\* a and b depend on one another, the target depends on a, and the walk is over
C20_Witness ==
  /\ SizeFinished
  /\ "a" \in SeqSet(readPackageJson(fs, HoistedPath("t")).dependencies)
  /\ "b" \in SeqSet(readPackageJson(fs, HoistedPath("a")).dependencies)
  /\ "a" \in SeqSet(readPackageJson(fs, HoistedPath("b")).dependencies)
  /\ {"a", "b"} \subseteq treeVisited

\* a depends on the target, the target on a, and the walk is over
C20_WitnessTarget ==
  /\ SizeFinished
  /\ "a" \in SeqSet(readPackageJson(fs, HoistedPath("t")).dependencies)
  /\ "t" \in SeqSet(readPackageJson(fs, HoistedPath("a")).dependencies)
  /\ Len(sizeResult.breakdown) = 2

-----------------------------------------------------------------------------
(* C21 *)

\* the sizes of the entries of a breakdown added up, entry by entry from the
\* last one
RECURSIVE SumUpTo(_, _)
SumUpTo(items, n) == IF n = 0 THEN 0 ELSE SumUpTo(items, n - 1) + items[n].size

\* percentOfNodeModules, a quotient, lies between 0 and 100
PercentInRange(q) == q[2] > 0 /\ 0 <= q[1] /\ q[1] <= 100 * q[2]

\* C21, as the claim states it: in every result of analyzeSizeMap totalSize is
\* the sum of the sizes of the breakdown entries and is at most
\* nodeModulesSize, percentOfNodeModules lies between 0 and 100, and it is 0
\* when nodeModulesSize is 0.
C21_AsClaimed ==
  SizeFinished =>
    /\ sizeResult.totalSize = SumUpTo(sizeResult.breakdown, Len(sizeResult.breakdown))
    /\ sizeResult.totalSize <= sizeResult.nodeModulesSize
    /\ PercentInRange(sizeResult.percentOfNodeModules)
    /\ sizeResult.nodeModulesSize = 0 => sizeResult.percentOfNodeModules[1] = 0

\* C21, what does hold in every result: totalSize is the sum of the sizes of
\* the breakdown entries, percentOfNodeModules is 0 when nodeModulesSize is
\* 0 and totalSize * 100 / nodeModulesSize otherwise; and where every
\* directory can be listed totalSize is at most nodeModulesSize and
\* percentOfNodeModules lies between 0 and 100.
C21_HoldsWhereListable ==
  SizeFinished =>
    /\ sizeResult.totalSize = SumUpTo(sizeResult.breakdown, Len(sizeResult.breakdown))
    /\ sizeResult.nodeModulesSize = 0 => sizeResult.percentOfNodeModules[1] = 0
    /\ sizeResult.nodeModulesSize > 0 =>
         sizeResult.percentOfNodeModules =
           <<sizeResult.totalSize * 100, sizeResult.nodeModulesSize>>
    /\ Unreadable(fs) = {} =>
         /\ sizeResult.totalSize <= sizeResult.nodeModulesSize
         /\ PercentInRange(sizeResult.percentOfNodeModules)

\* module b cannot be listed, c is installed inside it, and the result gives
\* the target more than the whole of node_modules
C21_Over100 ==
  /\ SizeFinished
  /\ Unreadable(fs) = {ModuleDir("b")}
  /\ sizeResult.nodeModulesSize > 0
  /\ sizeResult.totalSize > sizeResult.nodeModulesSize

====
